---- MODULE Spec2Model ----
(***************************************************************************)
(* Model of mosaicolabs/models/query/__init__.py: the initializer of the   *)
(* package mosaicolabs.models.query.  The file is two from-import          *)
(* statements that re-export nine names of the sibling submodules          *)
(* builders and response.                                                  *)
(*                                                                         *)
(* The statements are executed as the interpreter executes them:           *)
(*   IMPORT_NAME   loads the submodule (or finds it in sys.modules) and,   *)
(*                 when it was loaded just now, binds it as an attribute   *)
(*                 of the package;                                         *)
(*   IMPORT_FROM   reads one name of the submodule, raising ImportError    *)
(*                 when the submodule does not define it;                  *)
(*   STORE_NAME    binds the object under the alias in the package's       *)
(*                 namespace.                                              *)
(* An exception leaving the initializer removes the package from           *)
(* sys.modules; the submodules that were loaded stay there, and a later    *)
(* import of the package executes the initializer again in a new           *)
(* namespace.                                                              *)
(*                                                                         *)
(* `root` holds the public names of the package (those not starting with   *)
(* an underscore); the module attributes the import system sets on every   *)
(* module (__name__, __file__, ...) are left out.                          *)
(***************************************************************************)
EXTENDS Naturals, Sequences, FiniteSets

VARIABLES
    defs,         \* what the code of each submodule defines: name -> object
    sys_modules,  \* the modules present in sys.modules
    modns,        \* the namespace of each submodule (empty until it is loaded)
    root,         \* the namespace of the package being initialized
    pc,           \* "idle", "import_name", "import_from", "done", "failed"
    stmt,         \* the import statement being executed
    idx,          \* the entry of that statement's list being imported
    error,        \* the exception that left the initializer, or NoError
    errlog,       \* the exceptions of the failed attempts, oldest first
    events        \* what this attempt has done so far, in order

vars == <<defs, sys_modules, modns, root, pc, stmt, idx, error, errlog, events>>

-----------------------------------------------------------------------------
(* Bounds of the model *)

\* at most this many of the nine symbols are removed from or renamed in
\* their origin submodule
MaxMissing == 2
\* at most this many of the nine names are also defined, as another object,
\* by the submodule that is not their origin
MaxForeign == 1
\* the package is imported at most this many times
MaxAttempts == 2

-----------------------------------------------------------------------------
(* The source *)

Package == "query"

Entry(n, a) == [name |-> n, asname |-> a]

\* lines 1-6: from .builders import ( ... )
BuildersImports ==
    << Entry("QueryTopic", "QueryTopic"),
       Entry("QuerySequence", "QuerySequence"),
       Entry("QueryOntologyCatalog", "QueryOntologyCatalog"),
       Entry("Query", "Query") >>

\* (mutation) the last entry of the response list left out
ResponseImportsShort ==
    << Entry("QueryResponseItemSequence", "QueryResponseItemSequence"),
       Entry("QueryResponseItemTopic", "QueryResponseItemTopic"),
       Entry("TimestampRange", "TimestampRange"),
       Entry("QueryResponseItem", "QueryResponseItem") >>

\* lines 8-14: from .response import ( ... )
ResponseImports ==
    << Entry("QueryResponseItemSequence", "QueryResponseItemSequence"),
       Entry("QueryResponseItemTopic", "QueryResponseItemTopic"),
       Entry("TimestampRange", "TimestampRange"),
       Entry("QueryResponseItem", "QueryResponseItem"),
       Entry("QueryResponse", "QueryResponse") >>

\* (mutation) TimestampRange imported from builders instead of response
ImportStatementsMoved ==
    << [module |-> "builders",
        names  |-> Append(BuildersImports, Entry("TimestampRange", "TimestampRange"))],
       [module |-> "response",
        names  |-> SelectSeq(ResponseImports, LAMBDA e : e.name # "TimestampRange")] >>

\* (mutation) the response statement placed before the builders statement
ImportStatementsSwapped ==
    << [module |-> "response", names |-> ResponseImports],
       [module |-> "builders", names |-> BuildersImports] >>

\* the two statements, in the order of the file
ImportStatements ==
    << [module |-> "builders", names |-> BuildersImports],
       [module |-> "response", names |-> ResponseImports] >>

Submodules == {ImportStatements[i].module : i \in DOMAIN ImportStatements}

\* the names the file imports from submodule m
Imported(m) ==
    UNION {{ImportStatements[i].names[j].name :
                j \in DOMAIN ImportStatements[i].names} :
           i \in {k \in DOMAIN ImportStatements : ImportStatements[k].module = m}}

AllImported == UNION {Imported(m) : m \in Submodules}

-----------------------------------------------------------------------------
(* Objects and namespaces *)

\* the class that the code of module m defines under the name n
Class(m, n) == [kind |-> "class", module |-> m, qualname |-> n]
\* the module object of submodule m
ModuleObject(m) == [kind |-> "module", module |-> m, qualname |-> m]
\* what a lookup gives for a name the namespace does not bind
NotFound == [kind |-> "NotFound", module |-> "", qualname |-> ""]

EmptyNs == [x \in {} |-> NotFound]

NoError == [type |-> "none", module |-> "", name |-> ""]
\* ImportError: cannot import name n from m
ImportError(m, n) == [type |-> "ImportError", module |-> m, name |-> n]

\* the name a renamed symbol has in its submodule
NewName(n) == n \o "_v2"

\* The namespace the code of submodule m creates, when the symbols `removed`
\* are gone from their origin submodule, the symbols `renamed` are there
\* under a new name, and the names `foreign` are defined by the other
\* submodule too.
Definitions(m, removed, renamed, foreign) ==
    LET own    == Imported(m) \ (removed \cup renamed)
        moved  == {NewName(n) : n \in Imported(m) \cap renamed}
        others == foreign \ Imported(m)
    IN  [k \in own \cup moved \cup others |->
            IF k \in moved
            THEN Class(m, CHOOSE n \in Imported(m) \cap renamed : NewName(n) = k)
            ELSE Class(m, k)]

-----------------------------------------------------------------------------
(* The interpreter's steps *)

\* executing the code of submodule m gives its namespace
ExecModule(m) == defs[m]

\* STORE_NAME: bind obj under name k in namespace ns
StoreName(ns, k, obj) ==
    [x \in DOMAIN ns \cup {k} |-> IF x = k THEN obj ELSE ns[x]]

\* (mutation) a missing attribute read as None, as getattr(m, n, None)
GetAttrOrNone(m, n) ==
    IF n \in DOMAIN modns[m]
    THEN modns[m][n]
    ELSE [kind |-> "None", module |-> "builtins", qualname |-> "None"]

\* IMPORT_FROM: the attribute `n` of the loaded submodule m
GetAttr(m, n) == IF n \in DOMAIN modns[m] THEN modns[m][n] ELSE NotFound

\* (mutation) a copy of the object bound instead of the object
ImportsCopy(obj) == [obj EXCEPT !.kind = "copy"]

\* the object a from-import entry binds: the submodule's own object
Imports(obj) == obj

\* (mutation) one entry bound under a shorter alias, `Query as Q`
AliasShortened(entry) == IF entry.name = "Query" THEN "Q" ELSE entry.asname

\* the name under which an entry `name as asname` is bound
Alias(entry) == entry.asname

\* (mutation) the ImportError caught and another exception raised for it
RaisedWrapped(m, entry) == [type |-> "RuntimeError", module |-> m, name |-> entry.name]

\* the exception that leaves the initializer when m does not define the
\* entry's name: the ImportError of IMPORT_FROM, as it is
Raised(m, entry) == ImportError(m, entry.name)

\* (mutation) the imported name rebound in the origin submodule
OriginAfterImportPatched(ns, entry) ==
    StoreName(ns, entry.name, [ns[entry.name] EXCEPT !.kind = "patched"])

\* the namespace of the origin submodule after one of its names was imported
OriginAfterImport(ns, entry) == ns

\* the sets of at most k of the imported names
UpTo(k) == {s \in SUBSET AllImported : Cardinality(s) <= k}

Event(op, m, n, a) == [op |-> op, module |-> m, name |-> n, alias |-> a]

Init ==
    /\ \E missing \in UpTo(MaxMissing), foreign \in UpTo(MaxForeign) :
          \E renamed \in SUBSET missing :
              defs = [m \in Submodules |->
                         Definitions(m, missing \ renamed, renamed, foreign)]
    /\ sys_modules = {}
    /\ modns = [m \in Submodules |-> EmptyNs]
    /\ root = EmptyNs
    /\ pc = "idle"
    /\ stmt = 1
    /\ idx = 1
    /\ error = NoError
    /\ errlog = <<>>
    /\ events = <<>>

\* `import mosaicolabs.models.query` when the package is not in sys.modules:
\* a new module is registered and its initializer starts.
BeginImport ==
    /\ pc \in {"idle", "failed"}
    /\ Len(errlog) < MaxAttempts
    /\ sys_modules' = sys_modules \cup {Package}
    /\ root' = EmptyNs
    /\ pc' = "import_name"
    /\ stmt' = 1
    /\ idx' = 1
    /\ error' = NoError
    /\ events' = <<>>
    /\ UNCHANGED <<defs, modns, errlog>>

\* `from .m import (`: the submodule is loaded unless sys.modules has it; a
\* submodule loaded now is bound as an attribute of the package.
ImportName ==
    /\ pc = "import_name"
    /\ LET m     == ImportStatements[stmt].module
           fresh == m \notin sys_modules
       IN  /\ sys_modules' = sys_modules \cup {m}
           /\ modns' = IF fresh THEN [modns EXCEPT ![m] = ExecModule(m)] ELSE modns
           /\ root' = IF fresh THEN StoreName(root, m, ModuleObject(m)) ELSE root
           /\ events' = Append(events,
                               Event(IF fresh THEN "load" ELSE "cached", m, m, m))
    /\ pc' = "import_from"
    /\ idx' = 1
    /\ UNCHANGED <<defs, stmt, error, errlog>>

\* `name as asname,` when the submodule defines the name: the object is bound
\* in the package's namespace and execution moves to the next entry, the next
\* statement or the end of the file.
ImportFromBind ==
    /\ pc = "import_from"
    /\ LET s     == ImportStatements[stmt]
           entry == s.names[idx]
           obj   == GetAttr(s.module, entry.name)
       IN  /\ obj # NotFound
           /\ root' = StoreName(root, Alias(entry), Imports(obj))
           /\ modns' = [modns EXCEPT ![s.module] = OriginAfterImport(@, entry)]
           /\ events' = Append(events,
                               Event("store", s.module, entry.name, Alias(entry)))
           /\ IF idx < Len(s.names)
              THEN /\ idx' = idx + 1
                   /\ UNCHANGED <<stmt, pc>>
              ELSE /\ idx' = 1
                   /\ IF stmt < Len(ImportStatements)
                      THEN stmt' = stmt + 1 /\ pc' = "import_name"
                      ELSE stmt' = stmt /\ pc' = "done"
    /\ UNCHANGED <<defs, sys_modules, error, errlog>>

\* `name as asname,` when the submodule does not define the name: ImportError
\* leaves the initializer, and the import system takes the package out of
\* sys.modules.
ImportFromRaise ==
    /\ pc = "import_from"
    /\ LET s     == ImportStatements[stmt]
           entry == s.names[idx]
           obj   == GetAttr(s.module, entry.name)
       IN  /\ obj = NotFound
           /\ error' = Raised(s.module, entry)
           /\ errlog' = Append(errlog, Raised(s.module, entry))
           /\ events' = Append(events,
                               Event("raise", s.module, entry.name, Alias(entry)))
    /\ pc' = "failed"
    /\ sys_modules' = sys_modules \ {Package}
    /\ UNCHANGED <<defs, modns, root, stmt, idx>>

Next ==
    \/ BeginImport
    \/ ImportName
    \/ ImportFromBind
    \/ ImportFromRaise

Spec == Init /\ [][Next]_vars

-----------------------------------------------------------------------------
(* The interface of the specification (section 6): the nine names and the  *)
(* origin submodule of each, in the order of the table.                    *)

InterfaceOrder ==
    << "QueryTopic", "QuerySequence", "QueryOntologyCatalog", "Query",
       "QueryResponseItemSequence", "QueryResponseItemTopic", "TimestampRange",
       "QueryResponseItem", "QueryResponse" >>

NineNames == {InterfaceOrder[i] : i \in DOMAIN InterfaceOrder}

Origin(n) ==
    IF n \in {"QueryTopic", "QuerySequence", "QueryOntologyCatalog", "Query"}
    THEN "builders"
    ELSE "response"

\* the listed names their origin submodule's code does not define
MissingNames == {n \in NineNames : n \notin DOMAIN defs[Origin(n)]}

\* the first listed name that is missing (when one is)
FirstMissing ==
    InterfaceOrder[CHOOSE i \in DOMAIN InterfaceOrder :
                      /\ InterfaceOrder[i] \in MissingNames
                      /\ \A j \in 1..(i - 1) : InterfaceOrder[j] \notin MissingNames]

\* the listed names before n in the table
Before(n) ==
    {InterfaceOrder[j] : j \in {k \in DOMAIN InterfaceOrder :
        \E i \in DOMAIN InterfaceOrder : InterfaceOrder[i] = n /\ k < i}}

\* the positions of this attempt's events of kind op
EventsOf(op) == {i \in DOMAIN events : events[i].op = op}

\* the submodules this attempt loaded
LoadedHere == {events[i].module : i \in EventsOf("load")}

-----------------------------------------------------------------------------
(* C1: when the import of the package has completed, each of the nine      *)
(* names is bound at the package root, and to a definition, not to None.   *)
C1_AllNamesBound ==
    pc = "done" =>
        \A n \in NineNames :
            /\ n \in DOMAIN root
            /\ root[n].kind \notin {"None", "NotFound"}

C1_Witness ==
    /\ pc = "done"
    /\ \A n \in NineNames : n \in DOMAIN root /\ root[n].kind = "class"

(* C2 as stated: after a successful import the names at the package root   *)
(* are the nine listed names and no other.                                 *)
C2_ExactlyNine ==
    pc = "done" => DOMAIN root = NineNames

(* C2 amended: after a successful import the public names at the package   *)
(* root are the nine listed names and the names of the origin submodules   *)
(* this import loaded, which the import system binds there; no listed name *)
(* is missing and no further name is bound.                                *)
C2_NineAndLoadedSubmodules ==
    pc = "done" =>
        /\ DOMAIN root = NineNames \cup LoadedHere
        /\ \A m \in LoadedHere : root[m] = ModuleObject(m)

C2_Witness ==
    /\ pc = "done"
    /\ LoadedHere = {"builders", "response"}
    /\ {"builders", "response"} \subseteq DOMAIN root

(* C3: each listed name bound at the package root is bound to the very     *)
(* object its origin submodule binds to that name.                         *)
C3_SameObject ==
    \A n \in NineNames \cap DOMAIN root :
        /\ n \in DOMAIN modns[Origin(n)]
        /\ root[n] = modns[Origin(n)][n]

C3_Witness ==
    /\ pc = "done"
    /\ "TimestampRange" \in DOMAIN modns["builders"]
    /\ root["TimestampRange"] = modns["response"]["TimestampRange"]
    /\ root["TimestampRange"] # modns["builders"]["TimestampRange"]

(* C4: with a listed symbol missing from its origin submodule the import   *)
(* does not complete: a completed import has all nine symbols defined and  *)
(* bound, a failed one raised ImportError for a missing symbol of its      *)
(* origin submodule, and every attempt fails with the same error.          *)
C4_FailsDeterministically ==
    /\ pc = "done" => MissingNames = {} /\ NineNames \subseteq DOMAIN root
    /\ pc = "failed" =>
          /\ error.type = "ImportError"
          /\ error.name \in MissingNames
          /\ error.module = Origin(error.name)
    /\ \A i \in DOMAIN errlog : errlog[i] = errlog[1]

C4_Witness ==
    /\ pc = "failed"
    /\ Len(errlog) >= 2
    /\ errlog[1] = ImportError("response", "QueryResponse")
    /\ errlog[2] = errlog[1]

(* C5: the ImportError of the first missing symbol leaves the initializer  *)
(* as it was raised: it is the last thing the attempt did and was raised   *)
(* once, the names bound are those listed before the missing one, nothing  *)
(* is bound in its place, and the package is not left in sys.modules.      *)
C5_PropagatesUnmodified ==
    pc = "failed" =>
        /\ error = ImportError(Origin(FirstMissing), FirstMissing)
        /\ errlog[Len(errlog)] = error
        /\ EventsOf("raise") = {Len(events)}
        /\ events[Len(events)].name = FirstMissing
        /\ NineNames \cap DOMAIN root = Before(FirstMissing)
        /\ \A n \in DOMAIN root : root[n].kind \in {"class", "module"}
        /\ Package \notin sys_modules

C5_Witness ==
    /\ pc = "failed"
    /\ error = ImportError("response", "TimestampRange")
    /\ "QueryResponse" \in MissingNames
    /\ "QueryResponseItemTopic" \in DOMAIN root
    /\ "QueryResponseItem" \notin DOMAIN root

(* C6: every name the initializer binds is one of the nine, read from the  *)
(* submodule the interface table gives for it, bound under its own name    *)
(* and bound once; after a successful import each name holds the           *)
(* definition its origin submodule owns under that name.                   *)
C6_OriginAndName ==
    /\ \A i \in EventsOf("store") :
          /\ events[i].name \in NineNames
          /\ events[i].module = Origin(events[i].name)
          /\ events[i].alias = events[i].name
          /\ \A j \in EventsOf("store") : j # i => events[j].alias # events[i].alias
    /\ pc = "done" =>
          \A n \in NineNames : root[n] = Class(Origin(n), n)

C6_Witness ==
    /\ pc = "done"
    /\ Cardinality(EventsOf("store")) = 9
    /\ \E n \in NineNames : \E m \in Submodules : m # Origin(n) /\ n \in DOMAIN modns[m]

(* C7: in every attempt the response submodule is touched only after the   *)
(* four builders names were bound; when builders fails, response was not   *)
(* loaded, and when response fails, builders is loaded and its names are   *)
(* bound.                                                                  *)
C7_BuildersBeforeResponse ==
    /\ \A i \in DOMAIN events :
          events[i].module = "response" =>
              \A n \in {x \in NineNames : Origin(x) = "builders"} :
                  \E j \in 1..(i - 1) : events[j] = Event("store", "builders", n, n)
    /\ (pc = "failed" /\ error.module = "builders") =>
          /\ "response" \notin sys_modules
          /\ \A i \in DOMAIN events : events[i].module # "response"
    /\ (pc = "failed" /\ error.module = "response") =>
          /\ "builders" \in sys_modules
          /\ \A n \in {x \in NineNames : Origin(x) = "builders"} : n \in DOMAIN root

C7_Witness ==
    /\ pc = "failed"
    /\ error.module = "builders"
    /\ Len(errlog) >= 2
    /\ "response" \notin sys_modules
    /\ "QueryTopic" \in DOMAIN root

(* C8: no step of the import, in an attempt that succeeds or fails,        *)
(* changes the namespace of a loaded submodule; a submodule being loaded   *)
(* gets the namespace its own code defines.                                *)
C8_SubmodulesUnchanged ==
    [][\A m \in Submodules :
          /\ m \in sys_modules => modns'[m] = modns[m]
          /\ (m \notin sys_modules /\ m \in sys_modules') => modns'[m] = defs[m]
          /\ defs'[m] = defs[m]]_vars

C8_Witness ==
    /\ pc = "failed"
    /\ Len(errlog) >= 2
    /\ "Query" \in DOMAIN root
    /\ \A m \in Submodules : m \in sys_modules /\ modns[m] = defs[m]

====
